---- MODULE Spec2Model ----
(***************************************************************************)
(* Model of the memory graph service of mcp-memory (MemoryService over a   *)
(* RedisGraph handle): node and edge store, the seven public operations,   *)
(* initialize(), the result normalizer and the relevance ranker.           *)
(*                                                                         *)
(* JavaScript values: an optional value is a tuple, <<>> for undefined /   *)
(* absent and <<v>> for a present value v.  Text that is searched          *)
(* (content, title, keyword) is a sequence of one-character strings; the   *)
(* other string properties are plain strings.                              *)
(***************************************************************************)
EXTENDS Integers, Sequences, FiniteSets, TLC

\* ------------------------------------------------------------------ bounds
MaxRecords == 1      \* records created in Spec
MaxTime == 1         \* clock ticks
MaxNodes == 2        \* nodes created in SpecGraph
MaxEdges == 1        \* edges created in SpecGraph
MaxInitCalls == 2    \* calls of initialize()
MaxSearchNodes == 3  \* records created in SpecSearch
MaxFilterNodes == 2  \* records created in SpecFilter
MaxPageNodes == 5    \* records created in SpecPage
MaxPageTime == 4     \* clock ticks in SpecPage
MaxRowCount == 2     \* rows of an engine reply in SpecRows
MaxTopNodes == 11    \* records created in SpecTop
MaxKeywordNodes == 2 \* records created in SpecKeyword

\* ------------------------------------------------------- the record model
Conversation == "Conversation"
Topic == "Topic"
Project == "Project"
Task == "Task"
Issue == "Issue"
Config == "Config"
Finance == "Finance"
Todo == "Todo"

MemoryNodeType ==
  <<Conversation, Topic, Project, Task, Issue, Config, Finance, Todo>>

Kinds == {MemoryNodeType[i] : i \in DOMAIN MemoryNodeType}

MemoryRelationType ==
  {"CONTAINS", "RELATED_TO", "DEPENDS_ON", "PART_OF", "RESOLVED_BY",
   "CREATED_AT", "UPDATED_AT"}

Undefined == <<>>

Some(v) == <<v>>

\* optional properties of a memory object (MemoryNode plus the two Finance
\* properties that extractSpecificProperties reads through `as any`)
OptFields ==
  {"name", "title", "description", "summary", "status", "severity", "key",
   "value", "environment", "category", "completed", "priority", "dueDate",
   "amount", "currency"}

BaseFields == {"id", "type", "content", "created", "updated", "metadata"}

MemoryNode == BaseFields \cup OptFields

TextFields == {"content", "title"}

NumFields == {"created", "updated", "dueDate", "amount"}

\* JavaScript truthiness of the optional value p held by field f
Truthy(f, p) ==
  /\ p # Undefined
  /\ CASE f \in TextFields -> p[1] # <<>>
       [] f \in NumFields -> p[1] # 0
       [] f = "completed" -> p[1] = TRUE
       [] f \in {"id", "metadata"} -> TRUE
       [] OTHER -> p[1] # ""

\* ------------------------------------------------------------- JSON text
\* JSON.stringify of a flat mapping: the token sequence { k : v , k : v }
MetaKeys == <<"k1", "k2">>

RECURSIVE StringifyFrom(_, _, _)
StringifyFrom(obj, i, first) ==
  IF i > Len(MetaKeys) THEN <<>>
  ELSE IF MetaKeys[i] \in DOMAIN obj
       THEN (IF first THEN <<>> ELSE <<",">>)
            \o <<MetaKeys[i], ":", obj[MetaKeys[i]]>>
            \o StringifyFrom(obj, i + 1, FALSE)
       ELSE StringifyFrom(obj, i + 1, first)

JSONStringify(obj) == <<"{">> \o StringifyFrom(obj, 1, TRUE) \o <<"}">>

\* the members between the braces: k : v groups separated by commas
RECURSIVE ParseMembers(_)
ParseMembers(toks) ==
  IF Len(toks) = 0 THEN [ok |-> TRUE, value |-> <<>>]
  ELSE IF Len(toks) >= 3 /\ toks[2] = ":"
          /\ toks[1] \notin {"{", "}", ":", ","}
          /\ toks[3] \notin {"{", "}", ":", ","}
       THEN IF Len(toks) = 3
            THEN [ok |-> TRUE, value |-> (toks[1] :> toks[3])]
            ELSE IF toks[4] = "," /\ Len(toks) > 4
                 THEN LET rest == ParseMembers(SubSeq(toks, 5, Len(toks)))
                      IN IF rest.ok
                         THEN [ok |-> TRUE,
                               value |-> (rest.value @@ (toks[1] :> toks[3]))]
                         ELSE [ok |-> FALSE, value |-> <<>>]
                 ELSE [ok |-> FALSE, value |-> <<>>]
       ELSE [ok |-> FALSE, value |-> <<>>]

\* JSON.parse: ok = FALSE stands for the SyntaxError it throws
JSONParse(toks) ==
  IF Len(toks) >= 2 /\ toks[1] = "{" /\ toks[Len(toks)] = "}"
  THEN ParseMembers(SubSeq(toks, 2, Len(toks) - 1))
  ELSE [ok |-> FALSE, value |-> <<>>]

\* ---------------------------------------------------- property extractor
\* the kind -> persisted fields table of extractSpecificProperties
SpecificFields(type) ==
  CASE type = Conversation -> {"summary"}
    [] type = Project -> {"name", "description", "status"}
    [] type = Task -> {"status", "dueDate"}
    [] type = Issue -> {"severity", "status"}
    [] type = Config -> {"key", "value", "environment"}
    [] type = Finance -> {"category", "amount", "currency"}
    [] type = Todo -> {"completed", "priority"}
    [] OTHER -> {}

\* mutant: the plain falsy check on every field, completed included
ExtractTest_FalsyCheck(f, p) == Truthy(f, p)

\* the test each case of the switch applies before copying a field
ExtractTest(f, p) ==
  IF f = "completed" THEN p # Undefined ELSE Truthy(f, p)

\* properties: the mapping field -> value that is persisted; a field the
\* switch does not copy is left out of the domain
extractSpecificProperties(memory) ==
  LET type == IF memory["type"] = Undefined THEN "" ELSE memory["type"][1]
      keys == {f \in SpecificFields(type) : ExtractTest(f, memory[f])}
  IN [f \in keys |-> memory[f][1]]

\* ------------------------------------------------------ result normalizer
\* a row of the engine is an object, a mapping from keys to values; for
\* RETURN <alias> it holds the node under the alias
Row(alias, node) == (alias :> node)

\* a row that is null or undefined
NullRow == <<>>

\* property read: undefined when the object has no such key
Get(obj, f) == IF f \in DOMAIN obj THEN Some(obj[f]) ELSE Undefined

\* the fields parseNodeResult copies when truthy
ParsedTruthyFields ==
  {"name", "title", "description", "summary", "status", "severity", "key",
   "value", "environment", "category", "priority", "dueDate"}

\* mutant: the SyntaxError of the metadata parse is not caught
parseNodeResultRaises_MetadataThrows(row) ==
  \/ row = NullRow
  \/ LET nodeObject == IF "n" \in DOMAIN row THEN row["n"] ELSE row
         properties == IF "properties" \in DOMAIN nodeObject
                       THEN nodeObject["properties"] ELSE nodeObject
     IN /\ "metadata" \in DOMAIN properties
        /\ properties["metadata"] # <<>>
        /\ ~JSONParse(properties["metadata"]).ok

\* parseNodeResult throws: reading nodeData.n of a null row is a TypeError,
\* rethrown as 'Failed to parse node result'
parseNodeResultRaises(row) == row = NullRow

parseNodeResult(row) ==
  LET \* nodeData.n || nodeData, then nodeObject.properties || nodeObject:
      \* a row under another alias has neither `n` nor `properties`, so the
      \* row object itself (one key, the alias) is read as the property bag
      nodeObject == IF "n" \in DOMAIN row THEN row["n"] ELSE row
      properties == IF "properties" \in DOMAIN nodeObject
                    THEN nodeObject["properties"] ELSE nodeObject
      meta == Get(properties, "metadata")
      \* properties.metadata && typeof properties.metadata === 'string'
      parsed == IF meta # Undefined /\ meta[1] # <<>>
                THEN JSONParse(meta[1])
                ELSE [ok |-> TRUE, value |-> <<>>]
      metadata == IF parsed.ok THEN parsed.value ELSE <<>>
      orElse(f, d) == IF Truthy(f, Get(properties, f))
                      THEN Get(properties, f) ELSE Some(d)
  IN [f \in MemoryNode |->
        CASE f = "id" -> Get(properties, "id")
          [] f = "type" -> Get(properties, "type")
          [] f = "content" -> orElse("content", <<>>)
          [] f = "created" -> orElse("created", 0)
          [] f = "updated" -> orElse("updated", 0)
          [] f = "metadata" -> Some(metadata)
          [] f = "completed" -> Get(properties, "completed")
          [] f \in ParsedTruthyFields ->
               (IF Truthy(f, Get(properties, f))
                THEN Get(properties, f) ELSE Undefined)
          [] OTHER -> Undefined]

\* ------------------------------------------------------------------ state
VARIABLES
  nodes,          \* the graph's nodes: id property -> [labels, properties]
  edges,          \* the graph's edges in creation order
  indices,        \* labels that have an index on id
  engineRejects,  \* the engine fails CREATE INDEX on an existing index
  initCalls,      \* calls of initialize() so far
  now,            \* Date.now()
  nextId,         \* the next value uuidv4() hands out
  pending,        \* updateMemory calls between their fetch and their SET
  boot,           \* the server's position in its bootstrap
  lastOp,         \* the operation called last
  ret             \* that call's arguments and outcome

vars ==
  <<nodes, edges, indices, engineRejects, initCalls, now, nextId, pending,
    boot, lastOp, ret>>

Null == <<>>

\* a caller-side object: the listed keys are present, every other undefined
Obj(fields) ==
  [f \in MemoryNode |-> IF f \in DOMAIN fields THEN Some(fields[f])
                        ELSE Undefined]

\* the statistics the engine attaches to a reply (result.metadata)
NoStats == [nodesDeleted |-> 0, relationshipsDeleted |-> 0]

\* the call returns (raised = FALSE) or throws (raised = TRUE)
ReturnWith(op, arg, raised, value, meta) ==
  /\ lastOp' = op
  /\ ret' = [arg |-> arg, raised |-> raised, value |-> value, meta |-> meta]

Return(op, arg, raised, value) == ReturnWith(op, arg, raised, value, NoStats)

\* ------------------------------------------------------------ createMemory
\* the property map of CREATE (n:type {...}): the six base properties,
\* title when truthy, and the extracted kind-specific properties
\* mutant: the title is left to the kind's field table
CreateProperties_NoTitle(newMemory) ==
  LET metadataObj == IF newMemory["metadata"] = Undefined THEN <<>>
                     ELSE newMemory["metadata"][1]
      content == IF Truthy("content", newMemory["content"])
                 THEN newMemory["content"][1] ELSE <<>>
      base == [id |-> newMemory["id"][1],
               type |-> newMemory["type"][1],
               content |-> content,
               created |-> newMemory["created"][1],
               updated |-> newMemory["updated"][1],
               metadata |-> JSONStringify(metadataObj)]
  IN extractSpecificProperties(newMemory) @@ base

CreateProperties(newMemory) ==
  LET metadataObj == IF newMemory["metadata"] = Undefined THEN <<>>
                     ELSE newMemory["metadata"][1]
      content == IF Truthy("content", newMemory["content"])
                 THEN newMemory["content"][1] ELSE <<>>
      base == [id |-> newMemory["id"][1],
               type |-> newMemory["type"][1],
               content |-> content,
               created |-> newMemory["created"][1],
               updated |-> newMemory["updated"][1],
               metadata |-> JSONStringify(metadataObj)]
      title == IF Truthy("title", newMemory["title"])
               THEN [title |-> newMemory["title"][1]] ELSE <<>>
  IN extractSpecificProperties(newMemory) @@ title @@ base

NewMemory(memory, id, t) ==
  [f \in MemoryNode |->
     CASE f = "id" -> Some(id)
       [] f \in {"created", "updated"} -> Some(t)
       [] OTHER -> memory[f]]

createMemory(memory) ==
  LET newMemory == NewMemory(memory, nextId, now)
      node == [labels |-> <<newMemory["type"][1]>>,
               properties |-> CreateProperties(newMemory)]
  IN /\ nodes' = (nextId :> node) @@ nodes
     /\ nextId' = nextId + 1
     /\ Return("createMemory", memory, FALSE, newMemory)
     /\ UNCHANGED <<edges, indices, engineRejects, pending, boot, initCalls, now>>

\* ----------------------------------------------------------- getMemoryById
\* MATCH (n) WHERE n.id = $id RETURN n
\* mutant: MATCH (n:Task), the node is matched under one label only
MatchById_TaskLabel(ns, id) ==
  IF id \in DOMAIN ns /\ ns[id].labels = <<Task>>
  THEN <<Row("n", ns[id])>> ELSE <<>>

MatchById(ns, id) ==
  IF id \in DOMAIN ns THEN <<Row("n", ns[id])>> ELSE <<>>

getMemoryByIdResult(ns, id) ==
  LET data == MatchById(ns, id)
  IN IF Len(data) = 0 THEN Null ELSE Some(parseNodeResult(data[1]))

getMemoryById(id) ==
  /\ Return("getMemoryById", id, FALSE, getMemoryByIdResult(nodes, id))
  /\ UNCHANGED <<nodes, edges, indices, engineRejects, pending, boot, initCalls, now, nextId>>

\* ------------------------------------------------------------ updateMemory
\* { ...memory, ...updates, updated: Date.now() }
MergeUpdates(memory, updates, t) ==
  [f \in MemoryNode |->
     IF f = "updated" THEN Some(t)
     ELSE IF f \in DOMAIN updates THEN Some(updates[f])
     ELSE memory[f]]

\* params without id: the properties the SET clause assigns
UpdateParams(updatedMemory) ==
  extractSpecificProperties(updatedMemory)
  @@ [content |-> updatedMemory["content"][1],
      updated |-> updatedMemory["updated"][1],
      metadata |-> JSONStringify(updatedMemory["metadata"][1])]

\* MATCH (n) WHERE n.id = $id SET n.key = $key, ...
SetProperties(ns, id, params) ==
  IF id \in DOMAIN ns
  THEN [ns EXCEPT ![id].properties = params @@ @]
  ELSE ns

\* mutant: the merge and the SET query are run without the not-found return
updateMemory_NoGuard(id, updates) ==
  LET memory == getMemoryByIdResult(nodes, id)
      found == IF memory = Null THEN Obj(<<>>) ELSE memory[1]
      updatedMemory == MergeUpdates(found, updates, now)
  IN /\ nodes' = SetProperties(nodes, id, UpdateParams(updatedMemory))
     /\ Return("updateMemory", <<id, updates>>, FALSE, Some(updatedMemory))
     /\ UNCHANGED <<edges, indices, engineRejects, pending, boot, initCalls, now, nextId>>

updateMemory(id, updates) ==
  LET memory == getMemoryByIdResult(nodes, id)
      updatedMemory == MergeUpdates(memory[1], updates, now)
  IN /\ IF memory = Null
        THEN /\ Return("updateMemory", <<id, updates>>, FALSE, Null)
             /\ UNCHANGED nodes
        ELSE /\ nodes' = SetProperties(nodes, id, UpdateParams(updatedMemory))
             /\ Return("updateMemory", <<id, updates>>, FALSE,
                           Some(updatedMemory))
     /\ UNCHANGED <<edges, indices, engineRejects, pending, boot, initCalls, now, nextId>>

\* ------------------------------------------------------------ deleteMemory
\* DETACH DELETE n: the node goes together with every edge touching it
\* mutant: the delete takes every edge of the graph with it
DetachDelete_AllEdges(es, id) ==
  SelectSeq(es, LAMBDA e : FALSE)

DetachDelete(es, id) ==
  SelectSeq(es, LAMBDA e : e.from # id /\ e.to # id)

\* result.data of RETURN count(n) as deleted; over no match the engine
\* reports either no row or one row holding 0 (emptyData).  A row is an
\* object keyed by the column name or an array of the column values.
DeletedData(ns, id, emptyData, shape) ==
  LET count == IF id \in DOMAIN ns THEN 1 ELSE 0
  IN IF count = 0 /\ emptyData THEN <<>>
     ELSE IF shape = "object"
          THEN <<[isArray |-> FALSE, deleted |-> Some(count), items |-> <<>>]>>
          ELSE <<[isArray |-> TRUE, deleted |-> Undefined,
                  items |-> <<count>>]>>

\* the reply's statistics: nodes and relationships the query deleted
DeleteStats(ns, es, id) ==
  [nodesDeleted |-> IF id \in DOMAIN ns THEN 1 ELSE 0,
   relationshipsDeleted |-> Len(es) - Len(DetachDelete(es, id))]

\* mutant: a reported count of zero is taken for a deletion
deleteMemoryResult_NonNegative(data) ==
  IF Len(data) = 0 THEN FALSE
  ELSE LET firstRow == data[1]
           deletedCount ==
             IF firstRow.deleted # Undefined THEN firstRow.deleted[1]
             ELSE IF firstRow.isArray /\ Len(firstRow.items) > 0
                  THEN firstRow.items[1]
                  ELSE 0
       IN deletedCount >= 0

deleteMemoryResult(data) ==
  IF Len(data) = 0 THEN FALSE
  ELSE LET firstRow == data[1]
           deletedCount ==
             IF firstRow.deleted # Undefined THEN firstRow.deleted[1]
             ELSE IF firstRow.isArray /\ Len(firstRow.items) > 0
                  THEN firstRow.items[1]
                  ELSE 0
       IN deletedCount > 0

deleteMemory(id) ==
  \E emptyData \in BOOLEAN, shape \in {"object", "array"} :
    /\ nodes' = [i \in DOMAIN nodes \ {id} |-> nodes[i]]
    /\ edges' = DetachDelete(edges, id)
    /\ ReturnWith("deleteMemory", id, FALSE,
                  deleteMemoryResult(DeletedData(nodes, id, emptyData, shape)),
                  DeleteStats(nodes, edges, id))
    /\ UNCHANGED <<indices, engineRejects, pending, boot, initCalls, now, nextId>>

\* ---------------------------------------------------------- createRelation
\* MATCH (a), (b) WHERE a.id = $fromId AND b.id = $toId CREATE (a)-[r]->(b):
\* one edge per matched pair, none when an endpoint matches no node
\* mutant: the edge is created without matching its endpoints
CreateEdge_Unmatched(ns, es, relation) ==
  Append(es, [from |-> relation.from, to |-> relation.to,
              type |-> relation.type,
              properties |-> JSONStringify(relation.properties)])

CreateEdge(ns, es, relation) ==
  IF relation.from \in DOMAIN ns /\ relation.to \in DOMAIN ns
  THEN Append(es, [from |-> relation.from, to |-> relation.to,
                   type |-> relation.type,
                   properties |-> JSONStringify(relation.properties)])
  ELSE es

createRelation(relation) ==
  /\ edges' = CreateEdge(nodes, edges, relation)
  /\ Return("createRelation", relation, FALSE, Null)
  /\ UNCHANGED <<nodes, indices, engineRejects, pending, boot, initCalls, now, nextId>>

\* ------------------------------------------------------ getRelatedMemories
\* MATCH (n)-[r:type]->(related) WHERE n.id = $id RETURN related
RECURSIVE RelatedRows(_, _, _, _)
RelatedRows(ns, es, id, relationType) ==
  IF es = <<>> THEN <<>>
  ELSE LET e == Head(es)
           match == /\ e.from = id
                    /\ e.from \in DOMAIN ns /\ e.to \in DOMAIN ns
                    /\ relationType = Undefined \/ e.type = relationType[1]
       IN (IF match THEN <<Row("related", ns[e.to])>> ELSE <<>>)
          \o RelatedRows(ns, Tail(es), id, relationType)

\* the row loop of getRelatedMemories: a row whose parse throws is skipped
RECURSIVE ParseRelatedRows(_)
ParseRelatedRows(data) ==
  IF data = <<>> THEN <<>>
  ELSE (IF parseNodeResultRaises(Head(data)) THEN <<>>
        ELSE <<parseNodeResult(Head(data))>>)
       \o ParseRelatedRows(Tail(data))

getRelatedMemoriesResult(ns, es, id, relationType) ==
  ParseRelatedRows(RelatedRows(ns, es, id, relationType))

getRelatedMemories(id, relationType) ==
  /\ Return("getRelatedMemories", <<id, relationType>>, FALSE,
                getRelatedMemoriesResult(nodes, edges, id, relationType))
  /\ UNCHANGED <<nodes, edges, indices, engineRejects, pending, boot, initCalls, now, nextId>>

\* -------------------------------------------------------------- initialize
\* the eight CREATE INDEX ON :Kind(id) queries in order; the first one the
\* engine fails ends the call with that error
RECURSIVE CreateIndices(_, _, _)
CreateIndices(ix, rejects, i) ==
  IF i > Len(MemoryNodeType) THEN [indices |-> ix, raised |-> FALSE]
  ELSE IF rejects /\ MemoryNodeType[i] \in ix
       THEN [indices |-> ix, raised |-> TRUE]
       ELSE CreateIndices(ix \cup {MemoryNodeType[i]}, rejects, i + 1)

initialize ==
  LET r == CreateIndices(indices, engineRejects, 1)
  IN /\ initCalls < MaxInitCalls
     /\ indices' = r.indices
     /\ initCalls' = initCalls + 1
     /\ Return("initialize", initCalls + 1, r.raised, Null)
     /\ UNCHANGED <<nodes, edges, engineRejects, pending, boot, now, nextId>>

\* no call is in progress: the caller awaits each call before the next
Idle == lastOp = "none"

\* the caller takes the outcome of the call it awaited
Resume ==
  /\ lastOp # "none"
  /\ lastOp' = "none"
  /\ ret' = [arg |-> Null, raised |-> FALSE, value |-> Null, meta |-> NoStats]
  /\ UNCHANGED <<nodes, edges, indices, engineRejects, pending, boot, initCalls, now, nextId>>

\* the clock moves between calls
Tick ==
  /\ now' = now + 1
  /\ UNCHANGED <<nodes, edges, indices, engineRejects, pending, boot, initCalls, nextId, lastOp, ret>>

\* ------------------------------------------------------------------ text
UpperCase ==
  <<"A", "B", "C", "D", "E", "F", "G", "H", "I", "J", "K", "L", "M",
    "N", "O", "P", "Q", "R", "S", "T", "U", "V", "W", "X", "Y", "Z">>

LowerCase ==
  <<"a", "b", "c", "d", "e", "f", "g", "h", "i", "j", "k", "l", "m",
    "n", "o", "p", "q", "r", "s", "t", "u", "v", "w", "x", "y", "z">>

Chars ==
  {UpperCase[i] : i \in DOMAIN UpperCase}
  \cup {LowerCase[i] : i \in DOMAIN LowerCase} \cup {" "}

ToLowerChar ==
  [c \in Chars |->
     IF \E i \in DOMAIN UpperCase : UpperCase[i] = c
     THEN LowerCase[CHOOSE i \in DOMAIN UpperCase : UpperCase[i] = c]
     ELSE c]

\* String.prototype.toLowerCase, Cypher toLower
ToLower(s) == [i \in DOMAIN s |-> ToLowerChar[s[i]]]

\* String.prototype.includes, Cypher CONTAINS
Includes(s, sub) ==
  \E i \in 0..(Len(s) - Len(sub)) : SubSeq(s, i + 1, i + Len(sub)) = sub

\* String.prototype.startsWith
StartsWith(s, sub) ==
  Len(sub) <= Len(s) /\ SubSeq(s, 1, Len(sub)) = sub

IsSpace(c) == c = " "

\* String.prototype.trim
RECURSIVE TrimStart(_)
TrimStart(s) ==
  IF s # <<>> /\ IsSpace(Head(s)) THEN TrimStart(Tail(s)) ELSE s

RECURSIVE TrimEnd(_)
TrimEnd(s) ==
  IF s # <<>> /\ IsSpace(s[Len(s)])
  THEN TrimEnd(SubSeq(s, 1, Len(s) - 1)) ELSE s

Trim(s) == TrimEnd(TrimStart(s))

\* s.split(/\s+/).filter(word => word.length > 0): word collects the
\* characters of the word being read
RECURSIVE SplitWords(_, _)
SplitWords(s, word) ==
  IF s = <<>> THEN (IF word = <<>> THEN <<>> ELSE <<word>>)
  ELSE IF IsSpace(Head(s))
       THEN (IF word = <<>> THEN <<>> ELSE <<word>>)
            \o SplitWords(Tail(s), <<>>)
       ELSE SplitWords(Tail(s), Append(word, Head(s)))

Keywords(keyword) == SplitWords(Trim(keyword), <<>>)

\* ---------------------------------------------------------- searchMemories
\* criteria.fuzzySearch !== false
UseFuzzySearch(criteria) == criteria.fuzzySearch # Some(FALSE)

\* the values bound to $keyword0.., $exactPhrase or $keyword: the needles of
\* the keyword condition, OR'ed together
KeywordParams(criteria) ==
  LET keyword == criteria.keyword[1]
      keywords == Keywords(keyword)
  IN IF UseFuzzySearch(criteria) /\ Len(keywords) > 0
     THEN [i \in DOMAIN keywords |-> ToLower(keywords[i])]
          \o (IF Len(keywords) > 1 THEN <<ToLower(keyword)>> ELSE <<>>)
     ELSE <<ToLower(keyword)>>

\* toLower(n.f): null when n has no property f
LowerProperty(properties, f) ==
  IF f \in DOMAIN properties THEN Some(ToLower(properties[f])) ELSE Undefined

\* value CONTAINS $param: null, hence not true, on null
Contains(value, param) == value # Undefined /\ Includes(value[1], param)

\* mutant: the per-term tests are joined with AND
KeywordCondition_AllTerms(node, criteria) ==
  LET params == KeywordParams(criteria)
      content == LowerProperty(node.properties, "content")
      title == LowerProperty(node.properties, "title")
  IN \A i \in DOMAIN params :
       Contains(content, params[i]) \/ Contains(title, params[i])

KeywordCondition(node, criteria) ==
  LET params == KeywordParams(criteria)
      content == LowerProperty(node.properties, "content")
      title == LowerProperty(node.properties, "title")
  IN \E i \in DOMAIN params :
       Contains(content, params[i]) \/ Contains(title, params[i])

\* (n.metadata_key IS NOT NULL AND ...) for every requested entry
MetadataCondition(node, metadata) ==
  \A key \in DOMAIN metadata :
    LET property == Get(node.properties, "metadata_" \o key)
        entry == metadata[key]
    IN /\ property # Undefined
       /\ IF entry.isString
          THEN Contains(Some(ToLower(property[1])), ToLower(entry.value))
          ELSE property[1] = entry.value

\* the conditions the where clause holds for these criteria
WhereConditions(criteria) ==
  (IF Truthy("type", criteria.type) THEN {"type"} ELSE {})
  \cup (IF Truthy("content", criteria.keyword) THEN {"keyword"} ELSE {})
  \cup (IF Truthy("created", criteria.startDate) THEN {"startDate"} ELSE {})
  \cup (IF Truthy("created", criteria.endDate) THEN {"endDate"} ELSE {})
  \cup (IF criteria.metadata # Undefined /\ DOMAIN criteria.metadata[1] # {}
        THEN {"metadata"} ELSE {})

Condition(c, node, criteria) ==
  CASE c = "type" -> \E i \in DOMAIN node.labels :
                       node.labels[i] = criteria.type[1]
    [] c = "keyword" -> KeywordCondition(node, criteria)
    [] c = "startDate" -> node.properties.created >= criteria.startDate[1]
    [] c = "endDate" -> node.properties.created <= criteria.endDate[1]
    [] c = "metadata" -> MetadataCondition(node, criteria.metadata[1])

\* mutant: the conditions are joined with OR
WhereMatches_Or(node, criteria) ==
  \/ WhereConditions(criteria) = {}
  \/ \E c \in WhereConditions(criteria) : Condition(c, node, criteria)

\* WHERE: the conditions joined with AND; no clause when there is none
WhereMatches(node, criteria) ==
  \A c \in WhereConditions(criteria) : Condition(c, node, criteria)

\* ORDER BY n.orderBy direction, ORDER BY n.created DESC by default
OrderField(options) ==
  IF Truthy("name", options.orderBy) THEN options.orderBy[1] ELSE "created"

OrderDirection(options) ==
  IF Truthy("name", options.orderBy) /\ Truthy("name", options.direction)
  THEN options.direction[1] ELSE "DESC"

\* the orders the engine may return the matched nodes in: sorted on the
\* field, nodes with equal values in any order
RECURSIVE OrderedBy(_, _, _, _)
OrderedBy(ns, S, field, direction) ==
  IF S = {} THEN {<<>>}
  ELSE LET first == {x \in S : \A y \in S :
                       IF direction = "ASC"
                       THEN ns[x].properties[field] <= ns[y].properties[field]
                       ELSE ns[x].properties[field] >= ns[y].properties[field]}
       IN UNION {{<<x>> \o rest :
                    rest \in OrderedBy(ns, S \ {x}, field, direction)} :
                 x \in first}

\* mutant: LIMIT cuts the list before SKIP drops rows
SkipLimit_LimitFirst(rows, options) ==
  LET limited == IF Truthy("created", options.limit)
                    /\ options.limit[1] < Len(rows)
                 THEN SubSeq(rows, 1, options.limit[1]) ELSE rows
      skip == IF Truthy("created", options.offset) THEN options.offset[1]
              ELSE 0
  IN SubSeq(limited, skip + 1, Len(limited))

\* SKIP offset, then LIMIT limit, each only when the option is truthy
SkipLimit(rows, options) ==
  LET skip == IF Truthy("created", options.offset) THEN options.offset[1]
              ELSE 0
      skipped == SubSeq(rows, skip + 1, Len(rows))
  IN IF Truthy("created", options.limit) /\ options.limit[1] < Len(skipped)
     THEN SubSeq(skipped, 1, options.limit[1])
     ELSE skipped

\* the replies the engine may give to the search query: ids of the rows
\* mutant: the engine replies every matching row, SKIP and LIMIT left out
SearchData_Unpaged(ns, criteria, options) ==
  LET matched == {id \in DOMAIN ns : WhereMatches(ns[id], criteria)}
  IN OrderedBy(ns, matched, OrderField(options), OrderDirection(options))

SearchData(ns, criteria, options) ==
  LET matched == {id \in DOMAIN ns : WhereMatches(ns[id], criteria)}
  IN {SkipLimit(rows, options) :
        rows \in OrderedBy(ns, matched, OrderField(options),
                           OrderDirection(options))}

\* ---------------------------------------------------------- relevance rank
\* the default of criteria.topResults
DefaultTopResults == 10

\* calculateRelevanceScore with the clock at t (in days), times
\* 30 * keywords.length, which keeps every term of the sum an integer
calculateRelevanceScore(memory, criteria, t) ==
  LET keywords == Keywords(ToLower(criteria.keyword[1]))
      K == Len(keywords)
      content == IF Truthy("content", memory["content"])
                 THEN ToLower(memory["content"][1]) ELSE <<>>
      title == IF Truthy("title", memory["title"])
               THEN ToLower(memory["title"][1]) ELSE <<>>
      exactPhrase == ToLower(criteria.keyword[1])
      phrase == IF K > 1
                THEN (IF Includes(content, exactPhrase) THEN 10 ELSE 0)
                     + (IF Includes(title, exactPhrase) THEN 15 ELSE 0)
                ELSE 0
      WordScore(word) ==
        (IF Includes(content, word) THEN 3 ELSE 0)
        + (IF Includes(title, word) THEN 5 ELSE 0)
        + (IF StartsWith(content, word) \/ Includes(content, <<" ">> \o word)
           THEN 1 ELSE 0)
        + (IF StartsWith(title, word) \/ Includes(title, <<" ">> \o word)
           THEN 2 ELSE 0)
      Sum[i \in 0..K] == IF i = 0 THEN 0 ELSE Sum[i - 1] + WordScore(keywords[i])
      contentMatchCount ==
        Cardinality({i \in 1..K : Includes(content, keywords[i])})
      titleMatchCount ==
        Cardinality({i \in 1..K : Includes(title, keywords[i])})
      ageInDays == t - memory["created"][1]
      recency == IF Truthy("created", memory["created"]) /\ ageInDays < 60
                 THEN 60 - ageInDays ELSE 0
  IN 30 * K * (phrase + Sum[K])
     + 30 * (contentMatchCount * 5 + titleMatchCount * 7)
     + K * recency

\* mutant: the comparator with its operands swapped, lowest score first
CompareScore_Ascending(a, b) == a.score - b.score

\* the comparator (a, b) => b.score - a.score: negative when a goes first
CompareScore(a, b) == b.score - a.score

\* Array.prototype.sort(CompareScore) over the pairs of a memory and its
\* score: descending, pairs of equal score keep their order
RECURSIVE SortByScore(_)
SortByScore(scoredMemories) ==
  IF scoredMemories = <<>> THEN <<>>
  ELSE LET n == Len(scoredMemories)
           sorted == SortByScore(SubSeq(scoredMemories, 1, n - 1))
           last == scoredMemories[n]
           ahead == Cardinality({i \in DOMAIN sorted :
                                   CompareScore(sorted[i], last) <= 0})
       IN SubSeq(sorted, 1, ahead) \o <<last>>
          \o SubSeq(sorted, ahead + 1, Len(sorted))

\* mutant: the cut is taken one element late
Splice_OffByOne(list, n) ==
  IF Len(list) > n THEN SubSeq(list, 1, n + 1) ELSE list

\* splice(n): the first n elements
Splice(list, n) == IF Len(list) > n THEN SubSeq(list, 1, n) ELSE list

\* the row loop: a row whose parse throws and a row that parses to a record
\* without id are skipped
RECURSIVE ParseRows(_)
\* mutant: one try around the whole loop, the first throw ends the reading
ParseRows_StopAtThrow(data) ==
  LET throws == {i \in DOMAIN data : parseNodeResultRaises(data[i])}
      last == IF throws = {} THEN Len(data)
              ELSE (CHOOSE i \in throws : \A j \in throws : i <= j) - 1
      memories == [i \in 1..last |-> parseNodeResult(data[i])]
  IN SelectSeq(memories, LAMBDA memory : Truthy("id", memory["id"]))

ParseRows(data) ==
  IF data = <<>> THEN <<>>
  ELSE LET memory == parseNodeResult(Head(data))
       IN (IF ~parseNodeResultRaises(Head(data)) /\ Truthy("id", memory["id"])
           THEN <<memory>> ELSE <<>>)
          \o ParseRows(Tail(data))

\* what searchMemories returns for the rows data the engine replied
searchMemoriesResult(data, criteria, t) ==
  LET memories == ParseRows(data)
      topResultsLimit == IF criteria.topResults # Undefined
                         THEN criteria.topResults[1] ELSE DefaultTopResults
  IN IF /\ Truthy("content", criteria.keyword)
        /\ Trim(criteria.keyword[1]) # <<>>
        /\ Len(memories) > 0
     THEN IF UseFuzzySearch(criteria)
          THEN LET scoredMemories ==
                     [i \in DOMAIN memories |->
                        [memory |-> memories[i],
                         score |-> calculateRelevanceScore(memories[i],
                                                           criteria, t)]]
                   sorted == SortByScore(scoredMemories)
                   top == IF topResultsLimit > 0
                          THEN Splice(sorted, topResultsLimit) ELSE sorted
               IN [i \in DOMAIN top |-> top[i].memory]
          ELSE memories
     ELSE IF /\ Truthy("created", criteria.topResults)
             /\ criteria.topResults[1] > 0
          THEN Splice(memories, criteria.topResults[1])
          ELSE memories

searchMemories(criteria, options) ==
  \E ids \in SearchData(nodes, criteria, options) :
    LET data == [i \in DOMAIN ids |-> Row("n", nodes[ids[i]])]
    IN /\ ReturnWith("searchMemories", <<criteria, options>>, FALSE,
                     searchMemoriesResult(data, criteria, now),
                     [rows |-> ids])
       /\ UNCHANGED <<nodes, edges, indices, engineRejects, pending, boot, initCalls, now,
                      nextId>>

\* ------------------------------------------------- the store under calls
A == <<"a">>

B == <<"b">>

\* the service is built over a connected graph and called directly
ServiceOnly ==
  [pc |-> "none", done |-> <<>>, failed |-> Undefined, exitCode |-> Undefined]

InitStore ==
  /\ nodes = <<>>
  /\ edges = <<>>
  /\ indices = {}
  /\ initCalls = 0
  /\ now = 1
  /\ nextId = 1
  /\ pending = {}
  /\ boot = ServiceOnly
  /\ lastOp = "none"
  /\ ret = [arg |-> Null, raised |-> FALSE, value |-> Null, meta |-> NoStats]

\* memories handed to createMemory
CreateInputs ==
  {Obj([type |-> Task, content |-> A, title |-> A, status |-> "pending",
        metadata |-> <<>>]),
   Obj([type |-> Todo, content |-> B, completed |-> FALSE,
        metadata |-> ("k1" :> "v")]),
   Obj([type |-> Conversation, content |-> <<>>, title |-> B])}

\* partial memories handed to updateMemory
UpdateInputs ==
  {[content |-> B],
   [title |-> B, status |-> "done"],
   [metadata |-> ("k2" :> "w"), dueDate |-> 1],
   [type |-> Issue],
   [id |-> 2],
   [created |-> 0]}

RecordIds == 1..(MaxRecords + 1)

\* records through their life: create, read, update, delete under a clock
Init == InitStore /\ engineRejects = FALSE

Next ==
  \/ Resume
  \/ Idle /\ now <= MaxTime /\ Tick
  \/ Idle /\ \E memory \in CreateInputs : nextId <= MaxRecords /\ createMemory(memory)
  \/ Idle /\ \E id \in RecordIds : getMemoryById(id)
  \/ Idle /\ \E id \in RecordIds, updates \in UpdateInputs : updateMemory(id, updates)
  \/ Idle /\ \E id \in RecordIds : deleteMemory(id)

Spec == Init /\ [][Next]_vars

\* the graph: nodes, edges between them and their traversal
Ids == 1..MaxNodes

GraphInputs ==
  {Obj([type |-> Project, content |-> A, title |-> B, metadata |-> <<>>])}

RelationInputs ==
  {[from |-> a, to |-> b, type |-> t, properties |-> <<>>] :
     a \in Ids, b \in Ids, t \in {"CONTAINS", "RELATED_TO"}}

RelationFilters == {Undefined, Some("CONTAINS"), Some("RELATED_TO")}

\* the partial memory handed to updateMemory between graph calls
GraphUpdates == {[content |-> B]}

NextGraph ==
  \/ Resume
  \/ Idle /\ \E memory \in GraphInputs : nextId <= MaxNodes /\ createMemory(memory)
  \/ Idle /\ \E id \in Ids : getMemoryById(id)
  \/ Idle /\ \E id \in Ids : deleteMemory(id)
  \/ Idle /\ \E id \in Ids, updates \in GraphUpdates : updateMemory(id, updates)
  \/ Idle /\ \E relation \in RelationInputs :
       Len(edges) < MaxEdges /\ createRelation(relation)
  \/ Idle /\ \E id \in Ids, t \in RelationFilters : getRelatedMemories(id, t)

SpecGraph == Init /\ [][NextGraph]_vars

\* search over records with titles and contents
PaymentTimeout == <<"P", "a", "y", "m", "e", "n", "t", " ", "T", "i", "m", "e", "o", "u", "t">>

PaymentsFail == <<"p", "a", "y", "m", "e", "n", "t", "s", " ", "f", "a", "i", "l">>

Other == <<"O", "t", "h", "e", "r">>

NoMention == <<"n", "o", " ", "m", "e", "n", "t", "i", "o", "n">>

Payment == <<"P", "a", "y", "m", "e", "n", "t">>

PaymentGatewayPayment == <<"p", "a", "y", "m", "e", "n", "t", " ", "g", "a", "t", "e", "w", "a", "y", " ", "p", "a", "y", "m", "e", "n", "t">>

KeywordPaymentTimeout == <<"p", "a", "y", "m", "e", "n", "t", " ", "t", "i", "m", "e", "o", "u", "t">>

KeywordPayment == <<"p", "a", "y", "m", "e", "n", "t">>

SearchInputs ==
  {Obj([type |-> Issue, title |-> PaymentTimeout, content |-> PaymentsFail,
        metadata |-> ("k1" :> "v")]),
   Obj([type |-> Task, title |-> Other, content |-> NoMention,
        metadata |-> <<>>]),
   Obj([type |-> Task, title |-> Payment, content |-> PaymentGatewayPayment,
        metadata |-> <<>>])}

NoOptions ==
  [limit |-> Undefined, offset |-> Undefined, orderBy |-> Undefined,
   direction |-> Undefined]

\* keyword searches, ranked or not, over records created at one time
SearchCriteria ==
  {[type |-> type, keyword |-> keyword, startDate |-> Undefined,
    endDate |-> Undefined, metadata |-> Undefined,
    fuzzySearch |-> fuzzySearch, topResults |-> topResults] :
     type \in {Undefined, Some(Task)},
     keyword \in {Undefined, Some(KeywordPaymentTimeout),
                  Some(KeywordPayment)},
     fuzzySearch \in {Undefined, Some(FALSE)},
     topResults \in {Undefined, Some(1)}}

SearchOptions == {NoOptions, [NoOptions EXCEPT !.limit = Some(2)]}

NextSearch ==
  \/ Resume
  \/ Idle /\ \E memory \in SearchInputs :
       nextId <= MaxSearchNodes /\ createMemory(memory)
  \/ Idle /\ \E criteria \in SearchCriteria, options \in SearchOptions :
       searchMemories(criteria, options)

SpecSearch == Init /\ [][NextSearch]_vars

\* every combination of the criteria over records of two kinds
FilterInputs ==
  {Obj([type |-> Issue, title |-> Payment, content |-> PaymentsFail,
        metadata |-> ("k1" :> "v")]),
   Obj([type |-> Task, title |-> Payment, content |-> NoMention,
        metadata |-> ("k1" :> "v")])}

FilterCriteria ==
  {[type |-> type, keyword |-> keyword, startDate |-> startDate,
    endDate |-> endDate, metadata |-> metadata,
    fuzzySearch |-> fuzzySearch, topResults |-> Undefined] :
     type \in {Undefined, Some(Task), Some(Issue)},
     keyword \in {Undefined, Some(KeywordPayment)},
     startDate \in {Undefined, Some(2)},
     endDate \in {Undefined, Some(2)},
     metadata \in {Undefined,
                   Some("k1" :> [isString |-> TRUE, value |-> <<"v">>])},
     fuzzySearch \in {Undefined, Some(FALSE)}}

NextFilter ==
  \/ Resume
  \/ Idle /\ now <= MaxTime /\ Tick
  \/ Idle /\ \E memory \in FilterInputs :
       nextId <= MaxFilterNodes /\ createMemory(memory)
  \/ Idle /\ \E criteria \in FilterCriteria : searchMemories(criteria, NoOptions)

SpecFilter == Init /\ [][NextFilter]_vars

\* pages of the records in creation order, each created at its own time
NoCriteria ==
  [type |-> Undefined, keyword |-> Undefined, startDate |-> Undefined,
   endDate |-> Undefined, metadata |-> Undefined, fuzzySearch |-> Undefined,
   topResults |-> Undefined]

PageInputs ==
  {Obj([type |-> Topic, content |-> A, metadata |-> <<>>])}

PageOptions ==
  {[limit |-> limit, offset |-> offset, orderBy |-> orderBy,
    direction |-> direction] :
     limit \in {Undefined, Some(2)},
     offset \in {Undefined, Some(1)},
     orderBy \in {Undefined, Some("created")},
     direction \in {Undefined, Some("ASC"), Some("DESC")}}

NextPage ==
  \/ Resume
  \/ Idle /\ now <= MaxPageTime /\ Tick
  \/ Idle /\ \E memory \in PageInputs :
       /\ nextId <= MaxPageNodes
       /\ \A id \in DOMAIN nodes : nodes[id].properties.created < now
       /\ createMemory(memory)
  \/ Idle /\ \E options \in PageOptions : searchMemories(NoCriteria, options)

SpecPage == Init /\ [][NextPage]_vars

\* the fields each kind's interface declares (models/memory.ts)
KindFields(type) ==
  CASE type = Conversation -> {"summary"}
    [] type = Project -> {"name", "description", "status"}
    [] type = Task -> {"title", "status", "dueDate"}
    [] type = Issue -> {"title", "severity", "status"}
    [] type = Config -> {"key", "value", "environment"}
    [] type = Finance -> {"category", "amount", "currency"}
    [] type = Todo -> {"title", "completed", "priority"}
    [] OTHER -> {}

\* a non-empty value of the field's type
SampleValue(f, b) ==
  CASE f = "completed" -> b
    [] f \in NumFields -> 5
    [] f \in TextFields -> A
    [] OTHER -> "x"

RoundTripMetadata == {<<>>, ("k1" :> "v"), ("k1" :> "v") @@ ("k2" :> "w")}

\* every kind with every combination of its fields and the title present
\* or absent
RoundTripInputsOf(k) ==
  {[f \in MemoryNode |->
      CASE f = "type" -> Some(k)
        [] f = "content" -> Some(c)
        [] f = "metadata" -> Some(md)
        [] f \in S -> Some(SampleValue(f, b))
        [] OTHER -> Undefined] :
     S \in SUBSET (KindFields(k) \cup {"title"}), c \in {<<>>, A},
     md \in RoundTripMetadata, b \in BOOLEAN}

InitRoundTrip == InitStore /\ engineRejects \in BOOLEAN

\* the service from its start: initialize(), one record written, read back
NextRoundTrip ==
  \/ Resume
  \/ Idle /\ initialize
  \/ Idle /\ \E k \in Kinds : \E memory \in RoundTripInputsOf(k) :
       nextId <= 1 /\ createMemory(memory)
  \/ Idle /\ \E id \in {1} : getMemoryById(id)

SpecRoundTrip == InitRoundTrip /\ [][NextRoundTrip]_vars

\* ------------------------------------------- the normalizer under replies
\* nodes as createMemory writes them
SampleNode(id, memory) ==
  LET newMemory == NewMemory(memory, id, 1)
  IN [labels |-> <<newMemory["type"][1]>>,
      properties |-> CreateProperties(newMemory)]

RowNodes ==
  {SampleNode(1, Obj([type |-> Task, content |-> A, title |-> B,
                      metadata |-> ("k1" :> "v")])),
   SampleNode(2, Obj([type |-> Todo, content |-> B, completed |-> FALSE,
                      metadata |-> <<>>]))}

\* a metadata string that JSON.parse rejects: the text cut after the key
BadMetadata == <<"{", "k1">>

\* the rows a reply may hold: a node under the alias n or related, the node
\* object itself, its property bag, a node whose metadata string is broken,
\* the row of a count, and a null row
RowInputs ==
  {Row(alias, node) : alias \in {"n", "related"}, node \in RowNodes}
  \cup RowNodes
  \cup {node.properties : node \in RowNodes}
  \cup {Row("n", [node EXCEPT !.properties.metadata = BadMetadata]) :
          node \in RowNodes}
  \cup {("deleted" :> 1), NullRow}

RECURSIVE DataInputs(_)
DataInputs(n) ==
  IF n = 0 THEN {<<>>}
  ELSE LET shorter == DataInputs(n - 1)
       IN shorter \cup {Append(data, row) : data \in shorter, row \in RowInputs}

\* one row is handed to parseNodeResult
callParseNodeResult(row) ==
  /\ Return("parseNodeResult", row, parseNodeResultRaises(row),
            IF parseNodeResultRaises(row) THEN Null
            ELSE Some(parseNodeResult(row)))
  /\ UNCHANGED <<nodes, edges, indices, engineRejects, pending, boot, initCalls, now, nextId>>

\* searchMemories from the reply on, for a reply data and no criterion
readSearchRows(data) ==
  /\ Return("readSearchRows", data, FALSE,
            searchMemoriesResult(data, NoCriteria, now))
  /\ UNCHANGED <<nodes, edges, indices, engineRejects, pending, boot, initCalls, now, nextId>>

\* getRelatedMemories from the reply on, for a reply data
readRelatedRows(data) ==
  /\ Return("readRelatedRows", data, FALSE, ParseRelatedRows(data))
  /\ UNCHANGED <<nodes, edges, indices, engineRejects, pending, boot, initCalls, now, nextId>>

NextRows ==
  \/ Resume
  \/ Idle /\ \E row \in RowInputs : callParseNodeResult(row)
  \/ Idle /\ \E data \in DataInputs(MaxRowCount) : readSearchRows(data)
  \/ Idle /\ \E data \in DataInputs(MaxRowCount) : readRelatedRows(data)

SpecRows == Init /\ [][NextRows]_vars

\* ------------------------------------------------ the ranker under calls
\* two records that both carry the keyword, the first also in its title
TopInputs ==
  {Obj([type |-> Task, title |-> A, content |-> A, metadata |-> <<>>]),
   Obj([type |-> Task, title |-> B, content |-> A, metadata |-> <<>>])}

\* ranked searches for the keyword "a" with and without topResults
TopCriteria ==
  {[NoCriteria EXCEPT !.keyword = Some(A), !.topResults = topResults] :
     topResults \in {Undefined, Some(0), Some(0 - 1), Some(2)}}

TopOptions ==
  {NoOptions,
   [NoOptions EXCEPT !.orderBy = Some("created"), !.direction = Some("ASC")]}

\* records are created one per clock value, so the engine's order is
\* fixed, and the two records are written in turn
NextTop ==
  \/ Resume
  \/ Idle /\ (\E id \in DOMAIN nodes : nodes[id].properties.created = now)
          /\ Tick
  \/ Idle /\ \E memory \in TopInputs :
       /\ nextId <= MaxTopNodes
       /\ (memory["title"] = Some(A)) <=> (nextId % 2 = 1)
       /\ \A id \in DOMAIN nodes : nodes[id].properties.created < now
       /\ createMemory(memory)
  \/ Idle /\ \E criteria \in TopCriteria, options \in TopOptions :
       searchMemories(criteria, options)

SpecTop == Init /\ [][NextTop]_vars

\* --------------------------------------- the keyword condition under calls
\* a keyword of one blank
Blank == <<" ">>

\* the three records of the ranking example and a record without title
KeywordInputs ==
  SearchInputs
  \cup {Obj([type |-> Conversation, content |-> PaymentTimeout,
             metadata |-> <<>>])}

\* searches by keyword alone, fuzzy or not
KeywordCriteria ==
  {[NoCriteria EXCEPT !.keyword = Some(keyword),
                      !.fuzzySearch = fuzzySearch] :
     keyword \in {KeywordPaymentTimeout, KeywordPayment, Payment, Blank},
     fuzzySearch \in {Undefined, Some(TRUE), Some(FALSE)}}

NextKeyword ==
  \/ Resume
  \/ Idle /\ \E memory \in KeywordInputs :
       nextId <= MaxKeywordNodes /\ createMemory(memory)
  \/ Idle /\ \E criteria \in KeywordCriteria :
       searchMemories(criteria, NoOptions)

SpecKeyword == Init /\ [][NextKeyword]_vars

\* ------------------------------------------------------ the engine's reply
\* graph.query resolves with a reply or rejects with the engine's error;
\* a rejected query leaves the store as it was
ReplyError == "ReplyError"

\* the error createMemory builds over a reply without rows
CreateFailed == "Failed to create memory node"

\* the call throws error; queries counts the queries it issued and failed
\* is the position of the one the engine rejected
Throw(op, arg, error, queries, failed) ==
  /\ ReturnWith(op, arg, TRUE, error,
                [reply |-> "error", queries |-> queries, failed |-> failed])
  /\ UNCHANGED <<nodes, edges, indices, engineRejects, pending, boot, initCalls, now, nextId>>

CreateReplies == {"row", "empty", "error"}

\* mutant: a reply without rows is taken for a created node
createMemoryReply_IgnoresEmpty(memory, reply) ==
  \/ /\ reply = "row"
     /\ createMemory(memory)
  \/ /\ reply = "empty"
     /\ ReturnWith("createMemory", memory, FALSE,
                   NewMemory(memory, nextId, now),
                   [reply |-> "empty", queries |-> 1, failed |-> 0])
     /\ UNCHANGED <<nodes, edges, indices, engineRejects, pending, boot, initCalls, now,
                    nextId>>
  \/ /\ reply = "error"
     /\ Throw("createMemory", memory, ReplyError, 1, 1)

\* createMemory over the three replies to its CREATE ... RETURN n
createMemoryReply(memory, reply) ==
  \/ /\ reply = "row"
     /\ createMemory(memory)
  \/ /\ reply = "empty"
     /\ ReturnWith("createMemory", memory, TRUE, CreateFailed,
                   [reply |-> "empty", queries |-> 1, failed |-> 0])
     /\ UNCHANGED <<nodes, edges, indices, engineRejects, pending, boot, initCalls, now,
                    nextId>>
  \/ /\ reply = "error"
     /\ Throw("createMemory", memory, ReplyError, 1, 1)

getMemoryByIdRejected(id) == Throw("getMemoryById", id, ReplyError, 1, 1)

searchMemoriesRejected(criteria, options) ==
  Throw("searchMemories", <<criteria, options>>, ReplyError, 1, 1)

deleteMemoryRejected(id) == Throw("deleteMemory", id, ReplyError, 1, 1)

createRelationRejected(relation) ==
  Throw("createRelation", relation, ReplyError, 1, 1)

getRelatedMemoriesRejected(id, relationType) ==
  Throw("getRelatedMemories", <<id, relationType>>, ReplyError, 1, 1)

\* mutant: the SET is issued after the fetch the engine failed
updateMemoryRejected_FetchSwallowed(id, updates, failed) ==
  \/ /\ failed = 1
     /\ Throw("updateMemory", <<id, updates>>, ReplyError, 2, 1)
  \/ /\ failed = 2
     /\ getMemoryByIdResult(nodes, id) # Null
     /\ Throw("updateMemory", <<id, updates>>, ReplyError, 2, 2)

\* updateMemory when the engine rejects its fetch (1) or its SET (2); the
\* SET is issued only for a record the fetch found
updateMemoryRejected(id, updates, failed) ==
  \/ /\ failed = 1
     /\ Throw("updateMemory", <<id, updates>>, ReplyError, 1, 1)
  \/ /\ failed = 2
     /\ getMemoryByIdResult(nodes, id) # Null
     /\ Throw("updateMemory", <<id, updates>>, ReplyError, 2, 2)

\* the graph calls over an engine that may fail any query
NextFaults ==
  \/ Resume
  \/ Idle /\ \E memory \in GraphInputs, reply \in CreateReplies :
       nextId <= MaxNodes /\ createMemoryReply(memory, reply)
  \/ Idle /\ \E id \in Ids : getMemoryById(id)
  \/ Idle /\ \E id \in Ids : getMemoryByIdRejected(id)
  \/ Idle /\ \E id \in Ids : deleteMemory(id)
  \/ Idle /\ \E id \in Ids : deleteMemoryRejected(id)
  \/ Idle /\ \E id \in Ids, updates \in GraphUpdates : updateMemory(id, updates)
  \/ Idle /\ \E id \in Ids, updates \in GraphUpdates, failed \in {1, 2} :
       updateMemoryRejected(id, updates, failed)
  \/ Idle /\ \E relation \in RelationInputs :
       Len(edges) < MaxEdges /\ createRelation(relation)
  \/ Idle /\ \E relation \in RelationInputs : createRelationRejected(relation)
  \/ Idle /\ \E id \in Ids, t \in RelationFilters : getRelatedMemories(id, t)
  \/ Idle /\ \E id \in Ids, t \in RelationFilters :
       getRelatedMemoriesRejected(id, t)
  \/ Idle /\ \E options \in SearchOptions : searchMemories(NoCriteria, options)
  \/ Idle /\ \E options \in SearchOptions :
       searchMemoriesRejected(NoCriteria, options)

SpecFaults == Init /\ [][NextFaults]_vars

\* deletes in a graph of three nodes and two edges
MaxFrameNodes == 3

MaxFrameEdges == 2

FrameIds == 1..MaxFrameNodes

FrameRelations ==
  {relation \in
     {[from |-> a, to |-> b, type |-> "RELATED_TO", properties |-> <<>>] :
        a \in FrameIds, b \in FrameIds} : relation.from # relation.to}

NextFrame ==
  \/ Resume
  \/ Idle /\ \E memory \in GraphInputs :
       nextId <= MaxFrameNodes /\ createMemory(memory)
  \/ Idle /\ \E relation \in FrameRelations :
       Len(edges) < MaxFrameEdges /\ createRelation(relation)
  \/ Idle /\ \E id \in FrameIds : deleteMemory(id)
  \/ Idle /\ \E id \in FrameIds : getRelatedMemories(id, Undefined)

SpecFrame == Init /\ [][NextFrame]_vars

\* ------------------------------------------------ updateMemory in two steps
\* updateMemory awaits the engine twice: the fetch of getMemoryById and the
\* SET query; calls of other callers reach the engine in between
MaxCallers == 2

Callers == 1..MaxCallers

\* the one record the callers contend for
RaceIds == {1}

RaceInputs ==
  {Obj([type |-> Task, content |-> A, title |-> A, status |-> "pending",
        metadata |-> <<>>])}

RaceUpdates == {[content |-> B], [status |-> "done"]}

\* the call of caller c as it stands: the record it fetched, its Date.now()
\* and, once it returned, what it returned
Call(c, id, updates, memory, t, phase, result) ==
  [caller |-> c, id |-> id, updates |-> updates, memory |-> memory, t |-> t,
   phase |-> phase, result |-> result]

\* updateMemory(id, updates) of caller c up to its SET query: the fetch and
\* the return of null for a missing record
updateMemoryFetch(c, id, updates) ==
  LET memory == getMemoryByIdResult(nodes, id)
  IN /\ \A p \in pending : p.caller # c
     /\ pending' = pending \cup
          {IF memory = Null
           THEN Call(c, id, updates, Null, now, "returned", Null)
           ELSE Call(c, id, updates, memory, now, "fetched", Null)}
     /\ UNCHANGED <<nodes, edges, indices, engineRejects, boot, initCalls,
                    now, nextId, lastOp, ret>>

\* mutant: the SET query merges the updates into the record as it is stored
updateMemorySet_Fresh(c) ==
  \E p \in pending :
    LET memory == getMemoryByIdResult(nodes, p.id)
        updatedMemory ==
          MergeUpdates(IF memory = Null THEN p.memory[1] ELSE memory[1],
                       p.updates, p.t)
    IN /\ p.caller = c
       /\ p.phase = "fetched"
       /\ nodes' = SetProperties(nodes, p.id, UpdateParams(updatedMemory))
       /\ pending' = (pending \ {p}) \cup
            {[p EXCEPT !.phase = "returned", !.result = Some(updatedMemory)]}
       /\ UNCHANGED <<edges, indices, engineRejects, boot, initCalls, now,
                      nextId, lastOp, ret>>

\* the rest of the call: the SET query built from the fetched record, and
\* the return of the merged record
updateMemorySet(c) ==
  \E p \in pending :
    LET updatedMemory == MergeUpdates(p.memory[1], p.updates, p.t)
    IN /\ p.caller = c
       /\ p.phase = "fetched"
       /\ nodes' = SetProperties(nodes, p.id, UpdateParams(updatedMemory))
       /\ pending' = (pending \ {p}) \cup
            {[p EXCEPT !.phase = "returned", !.result = Some(updatedMemory)]}
       /\ UNCHANGED <<edges, indices, engineRejects, boot, initCalls, now,
                      nextId, lastOp, ret>>

\* callers whose updates and deletes of one record reach the engine in any
\* order
NextRace ==
  \/ Resume
  \/ Idle /\ now <= MaxTime /\ Tick
  \/ Idle /\ \E memory \in RaceInputs : nextId <= 1 /\ createMemory(memory)
  \/ Idle /\ \E c \in Callers, id \in RaceIds, updates \in RaceUpdates :
       updateMemoryFetch(c, id, updates)
  \/ Idle /\ \E c \in Callers : updateMemorySet(c)
  \/ Idle /\ \E id \in RaceIds : deleteMemory(id)

SpecRace == Init /\ [][NextRace]_vars

\* ------------------------------------------------------- server bootstrap
\* initialize() of the server: connect, ping, MemoryService.initialize(),
\* registerMemoryTools, server.connect(transport); a step that throws is
\* caught and ends the process with process.exit(1)
BootStart ==
  [pc |-> "connect", done |-> <<>>, failed |-> Undefined,
   exitCode |-> Undefined]

\* the step at pc completed: the bootstrap moves on to the step next
Completed(next) ==
  boot' = [boot EXCEPT !.pc = next, !.done = Append(@, boot.pc)]

\* the step at pc threw: catch (error) { process.exit(1) }
Exit1 ==
  boot' = [boot EXCEPT !.pc = "exited", !.failed = Some(boot.pc),
                       !.exitCode = Some(1)]

\* await client.connect()
bootConnect(ok) ==
  /\ boot.pc = "connect"
  /\ IF ok THEN Completed("ping") ELSE Exit1
  /\ UNCHANGED <<nodes, edges, indices, engineRejects, pending, initCalls,
                 now, nextId, lastOp, ret>>

\* mutant: a failed ping is logged and the bootstrap goes on
bootPing_Logged(ok) ==
  /\ boot.pc = "ping"
  /\ IF ok THEN Completed("initialize")
     ELSE boot' = [boot EXCEPT !.pc = "initialize", !.failed = Some("ping")]
  /\ UNCHANGED <<nodes, edges, indices, engineRejects, pending, initCalls,
                 now, nextId, lastOp, ret>>

\* await client.ping(), its error thrown on
bootPing(ok) ==
  /\ boot.pc = "ping"
  /\ IF ok THEN Completed("initialize") ELSE Exit1
  /\ UNCHANGED <<nodes, edges, indices, engineRejects, pending, initCalls,
                 now, nextId, lastOp, ret>>

\* await memoryService.initialize(): the index queries of the service
bootInitialize ==
  LET r == CreateIndices(indices, engineRejects, 1)
  IN /\ boot.pc = "initialize"
     /\ indices' = r.indices
     /\ initCalls' = initCalls + 1
     /\ IF r.raised THEN Exit1 ELSE Completed("register")
     /\ UNCHANGED <<nodes, edges, engineRejects, pending, now, nextId,
                    lastOp, ret>>

\* registerMemoryTools(server, graph): the seven tools, no await
bootRegister ==
  /\ boot.pc = "register"
  /\ Completed("transport")
  /\ UNCHANGED <<nodes, edges, indices, engineRejects, pending, initCalls,
                 now, nextId, lastOp, ret>>

\* await server.connect(transport)
bootTransport(ok) ==
  /\ boot.pc = "transport"
  /\ IF ok THEN Completed("serving") ELSE Exit1
  /\ UNCHANGED <<nodes, edges, indices, engineRejects, pending, initCalls,
                 now, nextId, lastOp, ret>>

\* a request reaches a registered tool over the connected transport
Serving == boot.pc = "serving" /\ Idle

\* the graph as an earlier run of the server left it: no index or all eight
InitBoot ==
  /\ nodes = <<>>
  /\ edges = <<>>
  /\ indices \in {{}, {MemoryNodeType[i] : i \in DOMAIN MemoryNodeType}}
  /\ engineRejects \in BOOLEAN
  /\ initCalls = 0
  /\ now = 1
  /\ nextId = 1
  /\ pending = {}
  /\ boot = BootStart
  /\ lastOp = "none"
  /\ ret = [arg |-> Null, raised |-> FALSE, value |-> Null, meta |-> NoStats]

NextBoot ==
  \/ \E ok \in BOOLEAN : bootConnect(ok)
  \/ \E ok \in BOOLEAN : bootPing(ok)
  \/ bootInitialize
  \/ bootRegister
  \/ \E ok \in BOOLEAN : bootTransport(ok)
  \/ boot.pc = "serving" /\ Resume
  \/ Serving /\ \E memory \in GraphInputs :
       nextId <= MaxNodes /\ createMemory(memory)
  \/ Serving /\ \E id \in Ids : getMemoryById(id)
  \/ Serving /\ \E id \in Ids, updates \in GraphUpdates :
       updateMemory(id, updates)
  \/ Serving /\ \E id \in Ids : deleteMemory(id)
  \/ Serving /\ \E relation \in RelationInputs :
       Len(edges) < MaxEdges /\ createRelation(relation)
  \/ Serving /\ \E id \in Ids, t \in RelationFilters :
       getRelatedMemories(id, t)
  \/ Serving /\ \E options \in SearchOptions :
       searchMemories(NoCriteria, options)

SpecBoot == InitBoot /\ [][NextBoot]_vars

\* ================================================================== claims

\* the ids of the records a list of records carries
IdsOf(records) == {records[i]["id"] : i \in DOMAIN records}

RowIds(rows) == {rows[i]["related"].properties.id : i \in DOMAIN rows}

\* the step is a call of operation op with argument arg
Called(op, arg) == Idle /\ lastOp' = op /\ ret'.arg = arg

\* what deleteMemory(id) must leave behind when it is called in a store ns
\* with edges es: the answer tells whether a node carried the id, the id can
\* no longer be fetched, and no traversal from a former neighbour yields it
DeleteSemantics(id) ==
  /\ ret'.raised = FALSE
  /\ ret'.value = (id \in DOMAIN nodes)
  /\ id \in DOMAIN nodes =>
       /\ getMemoryByIdResult(nodes', id) = Null
       /\ \A n \in DOMAIN nodes' :
            (\E i \in DOMAIN edges : edges[i].from = n /\ edges[i].to = id) =>
              \A t \in RelationFilters :
                /\ id \notin RowIds(RelatedRows(nodes', edges', n, t))
                /\ Some(id) \notin
                     IdsOf(getRelatedMemoriesResult(nodes', edges', n, t))

\* C1: deleteMemory(id) on an id that no node carries returns false; on an
\* existing id it returns true, a following getMemoryById(id) returns null,
\* and getRelatedMemories of every former neighbour that had an edge to the
\* deleted node no longer contains the deleted record.
C1_DeleteSemantics ==
  [][\A id \in Ids : Called("deleteMemory", id) => DeleteSemantics(id)]_vars

\* a node with an incident edge was deleted while another node remains
C1_Witness ==
  /\ lastOp = "deleteMemory"
  /\ ret.value = TRUE
  /\ ret.meta.relationshipsDeleted > 0
  /\ DOMAIN nodes # {}

\* C3: after updateMemory(id, updates) on an existing record returns R, a
\* getMemoryById(id) that follows it directly returns a record equal to R
\* on content, metadata and every field supplied in updates.
C3_UpdateThenFetch ==
  (lastOp = "updateMemory" /\ ret.value # Null) =>
    LET id == ret.arg[1]
        updates == ret.arg[2]
        R == ret.value[1]
        fetched == getMemoryByIdResult(nodes, id)
    IN /\ fetched # Null
       /\ \A f \in {"content", "metadata"} \cup DOMAIN updates :
            fetched[1][f] = R[f]

\* C4: creating a Todo with completed = false persists completed = false on
\* the node, and getMemoryById returns completed: false for every node that
\* stores it.
C4_FalsyCompleted ==
  /\ (/\ lastOp = "createMemory"
      /\ ret.arg["type"] = Some(Todo)
      /\ ret.arg["completed"] = Some(FALSE)) =>
       LET id == ret.value["id"][1]
       IN /\ id \in DOMAIN nodes
          /\ Get(nodes[id].properties, "completed") = Some(FALSE)
          /\ getMemoryByIdResult(nodes, id)[1]["completed"] = Some(FALSE)
  /\ \A id \in DOMAIN nodes :
       Get(nodes[id].properties, "completed") = Some(FALSE) =>
         getMemoryByIdResult(nodes, id)[1]["completed"] = Some(FALSE)

C4_Witness ==
  /\ lastOp = "createMemory"
  /\ ret.arg["type"] = Some(Todo)
  /\ ret.arg["completed"] = Some(FALSE)
  /\ ret.value["id"][1] \in DOMAIN nodes

\* C5: createRelation whose from id and/or to id matches no node completes
\* without raising and leaves the graph unchanged; no edge between the two
\* ids exists afterwards.
C5_OrphanRelation ==
  [][\A r \in RelationInputs :
       (/\ Called("createRelation", r)
        /\ r.from \notin DOMAIN nodes \/ r.to \notin DOMAIN nodes) =>
         /\ ret'.raised = FALSE
         /\ edges' = edges
         /\ nodes' = nodes
         /\ \A i \in DOMAIN edges' :
              ~(edges'[i].from = r.from /\ edges'[i].to = r.to)]_vars

\* a relation was requested from a stored node to an id that no node carries
C5_Witness ==
  /\ lastOp = "createRelation"
  /\ ret.arg.from \in DOMAIN nodes
  /\ ret.arg.to \notin DOMAIN nodes
  /\ ret.raised = FALSE

\* C6: with an engine that rejects creating an index that already exists, no
\* call of initialize() raises, the second included, and every call leaves
\* one index on id per kind.
C6_InitializeTwice ==
  (lastOp = "initialize" /\ engineRejects) =>
    (ret.raised = FALSE /\ indices = Kinds)

\* C2: for every kind and every combination of the kind's fields, normalizing
\* the node written by createMemory yields a record with the same id, kind,
\* content and metadata and with every kind field present at creation.
C2_RoundTrip ==
  lastOp = "createMemory" =>
    LET memory == ret.arg
        id == ret.value["id"][1]
        record == parseNodeResult(Row("n", nodes[id]))
    IN /\ record["id"] = Some(id)
       /\ record["type"] = memory["type"]
       /\ record["content"] = memory["content"]
       /\ record["metadata"] = memory["metadata"]
       /\ \A f \in KindFields(memory["type"][1]) :
            memory[f] # Undefined => record[f] = memory[f]

\* the ids of the records a search returned, in the order returned
ResultIds == [i \in DOMAIN ret.value |-> ret.value[i]["id"][1]]

\* the id of the k-th newest record of the store
KthNewest(k) ==
  CHOOSE id \in DOMAIN nodes :
    Cardinality({other \in DOMAIN nodes :
                   nodes[other].properties.created
                     > nodes[id].properties.created}) = k - 1

\* searchMemories({}, {limit: 2, offset: 1, orderBy: 'created', direction:
\* 'DESC'}) has returned over five records of strictly increasing timestamps
PageCase ==
  /\ lastOp = "searchMemories"
  /\ ret.arg = <<NoCriteria,
                 [limit |-> Some(2), offset |-> Some(1),
                  orderBy |-> Some("created"), direction |-> Some("DESC")]>>
  /\ Cardinality(DOMAIN nodes) = 5
  /\ \A id \in DOMAIN nodes, other \in DOMAIN nodes :
       id < other =>
         nodes[id].properties.created < nodes[other].properties.created

\* C7 as stated: the page of limit 2 at offset 1, newest first, over five
\* records holds the 3rd- and 4th-newest records, in that order.
C7_ThirdAndFourth ==
  PageCase => ResultIds = <<KthNewest(3), KthNewest(4)>>

\* C7: the page of limit 2 at offset 1, newest first, over five records of
\* strictly increasing timestamps holds exactly the 2nd- and 3rd-newest
\* records, in that order.
C7_Pagination ==
  PageCase => ResultIds = <<KthNewest(2), KthNewest(3)>>

C7_Witness == PageCase /\ Len(ret.value) = 2

\* C8: a search with a kind filter returns records of that kind only,
\* whatever the keyword, fuzzy flag, date range and metadata criteria are
\* and whatever the store holds.
C8_KindFilter ==
  (lastOp = "searchMemories" /\ ret.arg[1].type # Undefined) =>
    \A i \in DOMAIN ret.value : ret.value[i]["type"] = ret.arg[1].type

\* a search for Tasks by keyword returned a record while the store also
\* held an Issue whose title carries the keyword
C8_Witness ==
  /\ lastOp = "searchMemories"
  /\ ret.arg[1].type = Some(Task)
  /\ ret.arg[1].keyword = Some(KeywordPayment)
  /\ ret.value # <<>>
  /\ \E id \in DOMAIN nodes :
       /\ nodes[id].properties.type = Issue
       /\ Get(nodes[id].properties, "title") = Some(Payment)

\* the id of the stored record with the given title and content
IdOf(title, content) ==
  CHOOSE id \in DOMAIN nodes :
    /\ Get(nodes[id].properties, "title") = Some(title)
    /\ nodes[id].properties.content = content

\* a fuzzy search for "payment timeout", with no other criterion, has
\* returned over a store of exactly the three records of the example, all
\* created at the same time
RankingCase ==
  /\ lastOp = "searchMemories"
  /\ ret.arg[1] = [NoCriteria EXCEPT !.keyword = Some(KeywordPaymentTimeout)]
  /\ Cardinality(DOMAIN nodes) = 3
  /\ \A memory \in SearchInputs :
       \E id \in DOMAIN nodes :
         /\ Get(nodes[id].properties, "title") = memory["title"]
         /\ Some(nodes[id].properties.content) = memory["content"]
  /\ \A id \in DOMAIN nodes, other \in DOMAIN nodes :
       nodes[id].properties.created = nodes[other].properties.created

\* C9: over the records ("Payment Timeout", "payments fail"), ("Other", "no
\* mention") and ("Payment", "payment gateway payment") created at the same
\* time, a fuzzy search for "payment timeout" returns the first record
\* before the third and does not return the second.
C9_FuzzyRanking ==
  RankingCase =>
    /\ \E i \in DOMAIN ret.value, j \in DOMAIN ret.value :
         /\ i < j
         /\ ResultIds[i] = IdOf(PaymentTimeout, PaymentsFail)
         /\ ResultIds[j] = IdOf(Payment, PaymentGatewayPayment)
    /\ \A i \in DOMAIN ret.value : ResultIds[i] # IdOf(Other, NoMention)

\* the engine replied the third record ahead of the first
C9_Witness ==
  /\ RankingCase
  /\ ret.meta.rows = <<IdOf(Payment, PaymentGatewayPayment),
                       IdOf(PaymentTimeout, PaymentsFail)>>

\* C10: a search with a keyword and fuzzy matching disabled returns the
\* engine's rows in the engine's order, cut to the first topResults of them
\* when topResults > 0 is requested and more rows were replied.
C10_PlainTopResults ==
  (/\ lastOp = "searchMemories"
   /\ ret.arg[1].keyword # Undefined
   /\ ret.arg[1].fuzzySearch = Some(FALSE)) =>
     ResultIds = IF ret.arg[1].topResults # Undefined
                    /\ ret.arg[1].topResults[1] > 0
                 THEN Splice(ret.meta.rows, ret.arg[1].topResults[1])
                 ELSE ret.meta.rows

\* the set of ids of the records a search returned
ResultIdSet == {ResultIds[i] : i \in DOMAIN ret.value}

\* the metadata criterion {k1: "v"} and nothing else
MetadataCriteria ==
  [NoCriteria EXCEPT
     !.metadata = Some("k1" :> [isString |-> TRUE, value |-> <<"v">>])]

\* C11: a search by the metadata criterion {k1: "v"} returns every record
\* whose stored metadata reads back as {k1: "v"}, as a record created with
\* that metadata does.
C11_MetadataSearch ==
  (lastOp = "searchMemories" /\ ret.arg[1] = MetadataCriteria) =>
    \A id \in DOMAIN nodes :
      parseNodeResult(Row("n", nodes[id]))["metadata"] = Some("k1" :> "v")
        => id \in ResultIdSet

\* C12: updateMemory(id, updates) on an existing record, for every partial
\* record it accepts, leaves the stored node with the id, label and type it
\* had, and returns a record that carries that id and that kind.
C12_IdAndKindKept ==
  [][\A id \in RecordIds, updates \in UpdateInputs :
       (Called("updateMemory", <<id, updates>>) /\ id \in DOMAIN nodes) =>
         /\ id \in DOMAIN nodes'
         /\ nodes'[id].properties.id = id
         /\ nodes'[id].properties.type = nodes[id].properties.type
         /\ nodes'[id].labels = nodes[id].labels
         /\ ret'.value[1]["id"] = Some(id)
         /\ ret'.value[1]["type"] = Some(nodes[id].properties.type)]_vars

\* C13: under a clock that never goes back, every stored and every returned
\* record has updated >= created; createMemory sets both to the time of the
\* call; a successful updateMemory keeps created, stored and returned, and
\* sets updated to the time of the call.
C13_Timestamps ==
  [][/\ \A id \in DOMAIN nodes' :
          nodes'[id].properties.updated >= nodes'[id].properties.created
     /\ \A memory \in CreateInputs :
          Called("createMemory", memory) =>
            /\ ret'.value["created"] = Some(now)
            /\ ret'.value["updated"] = Some(now)
            /\ nodes'[nextId].properties.created = now
            /\ nodes'[nextId].properties.updated = now
     /\ \A id \in RecordIds, updates \in UpdateInputs :
          (Called("updateMemory", <<id, updates>>) /\ id \in DOMAIN nodes) =>
            /\ nodes'[id].properties.created = nodes[id].properties.created
            /\ nodes'[id].properties.updated = now
            /\ ret'.value[1]["created"] = Some(nodes[id].properties.created)
            /\ ret'.value[1]["updated"] = Some(now)
            /\ ret'.value[1]["updated"][1] >= ret'.value[1]["created"][1]]_vars

\* C14: updateMemory(id, updates) on an id that no node carries returns
\* null without raising and leaves every node and every edge as it was.
C14_UpdateMissing ==
  [][\A id \in Ids, updates \in GraphUpdates :
       (Called("updateMemory", <<id, updates>>) /\ id \notin DOMAIN nodes) =>
         /\ ret'.value = Null
         /\ ret'.raised = FALSE
         /\ nodes' = nodes
         /\ edges' = edges]_vars

\* an update of an id that no node carries was answered while the store
\* held a node and an edge
C14_Witness ==
  /\ lastOp = "updateMemory"
  /\ ret.arg[1] \notin DOMAIN nodes
  /\ ret.value = Null
  /\ DOMAIN nodes # {}
  /\ edges # <<>>

\* C15: getMemoryById(id) never raises for an id no node carries; it returns
\* null exactly when no node of the store has the id, whatever the labels of
\* the stored nodes are, and otherwise the record of the node with that id.
C15_GetById ==
  lastOp = "getMemoryById" =>
    /\ ret.raised = FALSE
    /\ (ret.value = Null) <=> (ret.arg \notin DOMAIN nodes)
    /\ ret.arg \in DOMAIN nodes =>
         LET properties == nodes[ret.arg].properties
             record == ret.value[1]
         IN /\ record["id"] = Some(ret.arg)
            /\ record["type"] = Some(properties.type)
            /\ record["content"] = Some(properties.content)
            /\ record["created"] = Some(properties.created)
            /\ record["updated"] = Some(properties.updated)
            /\ record["completed"] = Get(properties, "completed")

\* a node labelled Todo was fetched by its id
C15_Witness ==
  /\ lastOp = "getMemoryById"
  /\ ret.arg \in DOMAIN nodes
  /\ nodes[ret.arg].labels = <<Todo>>
  /\ ret.value # Null

\* C17: a row that wraps the node under the alias n (getMemoryById) or under
\* the alias related (getRelatedMemories) normalizes to a record with the
\* id, content and kind of the wrapped node, so getRelatedMemories returns
\* one record per related node, carrying that node's id.
C17_AliasRows ==
  /\ (lastOp = "getMemoryById" /\ ret.value # Null) =>
       /\ ret.value[1]["id"] = Some(nodes[ret.arg].properties.id)
       /\ ret.value[1]["content"] = Some(nodes[ret.arg].properties.content)
       /\ ret.value[1]["type"] = Some(nodes[ret.arg].properties.type)
  /\ lastOp = "getRelatedMemories" =>
       LET rows == RelatedRows(nodes, edges, ret.arg[1], ret.arg[2])
       IN /\ Len(ret.value) = Len(rows)
          /\ \A i \in DOMAIN rows :
               LET properties == rows[i]["related"].properties
               IN /\ ret.value[i]["id"] = Some(properties.id)
                  /\ ret.value[i]["content"] = Some(properties.content)
                  /\ ret.value[i]["type"] = Some(properties.type)

\* the rows of a reply whose parse does not throw, in the order of the reply
ParsableRows(data) ==
  SelectSeq(data, LAMBDA row : ~parseNodeResultRaises(row))

IsNodeObject(object) ==
  "properties" \in DOMAIN object /\ "labels" \in DOMAIN object

RecognisedShape(row) ==
  /\ row # NullRow
  /\ \/ \E alias \in DOMAIN row : alias \in {"n", "related"}
                                    /\ IsNodeObject(row[alias])
     \/ IsNodeObject(row)
     \/ "id" \in DOMAIN row

\* C18: parseNodeResult raises for every row that has none of the three
\* shapes, and a record it returns has an id.
C18_UnrecognisedRaises ==
  lastOp = "parseNodeResult" =>
    /\ ~RecognisedShape(ret.arg) => ret.raised
    /\ ~ret.raised => ret.value[1]["id"] # Undefined

\* C19: normalizing a node whose metadata string is not valid JSON does not
\* raise and yields metadata {}, and every other field is read as it is
\* from the same node with metadata "{}".
C19_BadMetadata ==
  \A node \in RowNodes :
    (/\ lastOp = "parseNodeResult"
     /\ ret.arg = Row("n", [node EXCEPT !.properties.metadata = BadMetadata]))
      => /\ ret.raised = FALSE
         /\ ret.value # Null
         /\ ret.value[1]["metadata"] = Some(<<>>)
         /\ LET sound == parseNodeResult(
                           Row("n", [node EXCEPT !.properties.metadata =
                                                    JSONStringify(<<>>)]))
            IN \A f \in MemoryNode \ {"metadata"} :
                 ret.value[1][f] = sound[f]

\* a node with a broken metadata string was normalized
C19_Witness ==
  /\ lastOp = "parseNodeResult"
  /\ ret.arg # NullRow
  /\ "n" \in DOMAIN ret.arg
  /\ ret.arg["n"].properties.metadata = BadMetadata
  /\ ret.value # Null
  /\ ret.value[1]["id"] = Some(1)

\* the number of records a ranked search may return out of n rows
RankedLength(topResults, n) ==
  LET limit == IF topResults = Undefined THEN 10 ELSE topResults[1]
  IN IF limit > 0 /\ n > limit THEN limit ELSE n

InContentOrTitle(node, text) ==
  \/ Includes(ToLower(node.properties.content), ToLower(text))
  \/ /\ "title" \in DOMAIN node.properties
     /\ Includes(ToLower(node.properties.title), ToLower(text))

\* a term of the trimmed keyword is contained or, for more than one term,
\* the whole phrase
TermMatches(node, keyword) ==
  LET terms == Keywords(keyword)
  IN \/ \E i \in DOMAIN terms : InContentOrTitle(node, terms[i])
     \/ Len(terms) > 1 /\ InContentOrTitle(node, keyword)

\* a search by keyword alone has returned
KeywordCase ==
  /\ lastOp = "searchMemories"
  /\ ret.arg[1] \in KeywordCriteria

\* C21 as stated: with fuzzy matching enabled the records returned are those
\* with a term of the trimmed keyword, or the whole phrase, in content or
\* title; with fuzzy matching disabled those with the whole phrase.
C21_KeywordTerms ==
  KeywordCase =>
    LET keyword == ret.arg[1].keyword[1]
    IN ResultIdSet =
         {id \in DOMAIN nodes :
            IF ret.arg[1].fuzzySearch # Some(FALSE)
            THEN TermMatches(nodes[id], keyword)
            ELSE InContentOrTitle(nodes[id], keyword)}

\* C21: as stated for a keyword that has a term; a keyword of blanks only
\* has no term and is matched as a whole, fuzzy or not.
C21_KeywordMatch ==
  KeywordCase =>
    LET keyword == ret.arg[1].keyword[1]
    IN ResultIdSet =
         {id \in DOMAIN nodes :
            IF ret.arg[1].fuzzySearch # Some(FALSE) /\ Keywords(keyword) # <<>>
            THEN TermMatches(nodes[id], keyword)
            ELSE InContentOrTitle(nodes[id], keyword)}

\* a fuzzy search for "payment timeout" returned the record without title
\* and left out the record that carries neither term
C21_Witness ==
  /\ KeywordCase
  /\ ret.arg[1].keyword = Some(KeywordPaymentTimeout)
  /\ ret.arg[1].fuzzySearch = Undefined
  /\ \E id \in ResultIdSet : "title" \notin DOMAIN nodes[id].properties
  /\ \E id \in DOMAIN nodes \ ResultIdSet : nodes[id].properties.content = NoMention

\* the edges that leave the node id, of type t when t is given, oldest first
OutgoingEdges(id, t) ==
  SelectSeq(edges, LAMBDA e : e.from = id /\ (t = Undefined \/ e.type = t[1]))

\* C22: getRelatedMemories(id, t) returns one record per edge that leaves
\* the node id (of type t when t is given), the record of that edge's
\* target, and nothing for the edges that enter the node.
C22_OutgoingTargets ==
  lastOp = "getRelatedMemories" =>
    LET out == OutgoingEdges(ret.arg[1], ret.arg[2])
    IN /\ Len(ret.value) = Len(out)
       /\ \A i \in DOMAIN out : ret.value[i]["id"] = Some(out[i].to)

\* C23: createMemory with a non-empty title stores the title on the node,
\* whatever the kind, and getMemoryById of the new record returns it.
C23_TitleStored ==
  (lastOp = "createMemory" /\ Truthy("title", ret.arg["title"])) =>
    LET id == ret.value["id"][1]
    IN /\ Get(nodes[id].properties, "title") = ret.arg["title"]
       /\ getMemoryByIdResult(nodes, id)[1]["title"] = ret.arg["title"]

\* a Config record, whose field table has no title, was created with a title
C23_Witness ==
  /\ lastOp = "createMemory"
  /\ ret.arg["type"] = Some(Config)
  /\ ret.arg["title"] = Some(A)
  /\ ret.value["id"][1] \in DOMAIN nodes

\* the engine's reply to the call that just returned
ReplyOf(r) == IF "reply" \in DOMAIN r.meta THEN r.meta.reply ELSE "row"

\* C24: createMemory returns the full record, the caller's fields with an
\* id no node carried and created = updated = now, when the engine reports
\* the created row; over a reply without rows it throws and returns no record
C24_CreateReply ==
  [][\A memory \in GraphInputs :
       Called("createMemory", memory) =>
         IF ReplyOf(ret') = "row"
         THEN /\ ~ret'.raised
              /\ \A f \in MemoryNode \ {"id", "created", "updated"} :
                   ret'.value[f] = memory[f]
              /\ ret'.value["id"] # Undefined
              /\ ret'.value["id"][1] \notin DOMAIN nodes
              /\ ret'.value["id"][1] \in DOMAIN nodes'
              /\ ret'.value["created"] = Some(now)
              /\ ret'.value["updated"] = Some(now)
         ELSE ReplyOf(ret') = "empty" =>
                ret'.raised /\ ret'.value = CreateFailed]_vars

C24_Witness ==
  lastOp = "createMemory" /\ ret.raised /\ ret.meta.reply = "empty"

\* C25: a call whose query the engine fails throws that same error, and the
\* failed query is the last one it issued: none is retried, none follows,
\* and updateMemory issues no SET after a failed fetch
C25_FailurePropagates ==
  [][(Idle /\ ReplyOf(ret') = "error") =>
       /\ lastOp' \in {"createMemory", "getMemoryById", "searchMemories",
                       "updateMemory", "deleteMemory", "createRelation",
                       "getRelatedMemories"}
       /\ ret'.raised
       /\ ret'.value = ReplyError
       /\ ret'.meta.queries = ret'.meta.failed
       /\ nodes' = nodes /\ edges' = edges]_vars

C25_Witness ==
  /\ lastOp = "updateMemory"
  /\ ret.raised
  /\ ret.meta.failed = 1
  /\ ret.meta.queries = 1
  /\ ret.arg[1] \in DOMAIN nodes

\* the edges of es that touch the node id
Incident(es, id) == {i \in DOMAIN es : es[i].from = id \/ es[i].to = id}

\* C26: deleteMemory(id) removes, in its one step, the node id and the edges
\* touching it and nothing else: every other node keeps its labels and
\* properties, the other edges stay in their order, and getRelatedMemories of
\* a node with no edge to id answers as before
C26_DeleteFrame ==
  [][\A id \in FrameIds :
       Called("deleteMemory", id) =>
         /\ DOMAIN nodes' = DOMAIN nodes \ {id}
         /\ \A other \in DOMAIN nodes \ {id} : nodes'[other] = nodes[other]
         /\ Incident(edges', id) = {}
         /\ Len(edges') = Len(edges) - Cardinality(Incident(edges, id))
         /\ \A i, j \in DOMAIN edges \ Incident(edges, id) :
              i < j => \E k, l \in DOMAIN edges' :
                         k < l /\ edges'[k] = edges[i] /\ edges'[l] = edges[j]
         /\ \A i \in DOMAIN edges \ Incident(edges, id) :
              \E k \in DOMAIN edges' : edges'[k] = edges[i]
         /\ \A a \in FrameIds \ {id} :
              (\A i \in DOMAIN edges : ~(edges[i].from = a /\ edges[i].to = id))
              => getRelatedMemoriesResult(nodes', edges', a, Undefined)
                 = getRelatedMemoriesResult(nodes, edges, a, Undefined)]_vars

\* node 1 went with its edge to node 2 while the edge from 2 to 3 stayed
C26_Witness ==
  /\ lastOp = "deleteMemory"
  /\ ret.arg = 1
  /\ ret.value = TRUE
  /\ ret.meta.relationshipsDeleted = 1
  /\ DOMAIN nodes = {2, 3}
  /\ Len(edges) = 1
  /\ edges[1].from = 2 /\ edges[1].to = 3

\* the relevance score of the stored record id for the search that returned
ScoreOf(id) ==
  calculateRelevanceScore(parseNodeResult(Row("n", nodes[id])), ret.arg[1],
                          now)

\* C29: the relevance ranking works on the page the engine replied after
\* ORDER BY, SKIP and LIMIT: a fuzzy keyword search returns records of that
\* page only, each at most once and no more than options.limit of them, so
\* a matching record outside the page is not returned whatever its score
C29_RankedPage ==
  (/\ lastOp = "searchMemories"
   /\ ret.arg[1].keyword # Undefined
   /\ UseFuzzySearch(ret.arg[1])) =>
    /\ \A i \in DOMAIN ret.value :
         \E k \in DOMAIN ret.meta.rows : ResultIds[i] = ret.meta.rows[k]
    /\ \A i \in DOMAIN ret.value, j \in DOMAIN ret.value :
         i # j => ResultIds[i] # ResultIds[j]
    /\ ret.arg[2].limit # Undefined => Len(ret.value) <= ret.arg[2].limit[1]
    /\ \A id \in DOMAIN nodes :
         (\A k \in DOMAIN ret.meta.rows : ret.meta.rows[k] # id)
         => \A i \in DOMAIN ret.value : ResultIds[i] # id

\* three records match "payment timeout", the page of limit 2 left out one
\* that scores above a returned record
C29_Witness ==
  /\ lastOp = "searchMemories"
  /\ ret.arg[1].keyword = Some(KeywordPaymentTimeout)
  /\ UseFuzzySearch(ret.arg[1])
  /\ ret.arg[2].limit = Some(2)
  /\ Len(ret.value) = 2
  /\ \E id \in DOMAIN nodes :
       /\ WhereMatches(nodes[id], ret.arg[1])
       /\ \A i \in DOMAIN ret.value : ResultIds[i] # id
       /\ \E i \in DOMAIN ret.value : ScoreOf(id) > ScoreOf(ResultIds[i])

\* the step is the SET query and return of the call p
SetStep(p) ==
  /\ p \in pending
  /\ p.phase = "fetched"
  /\ p \notin pending'
  /\ \E q \in pending' : q.caller = p.caller /\ q.phase = "returned"

\* what the call p writes for the field f: its update of f, else the value
\* of f in the record it fetched
Written(p, f) ==
  IF f \in DOMAIN p.updates THEN p.updates[f] ELSE p.memory[1][f][1]

\* C27: updateMemory is a read-modify-write in two steps: its SET assigns
\* content, metadata and the kind's fields from the record the call fetched,
\* whatever was stored since, so of two calls that both fetched before
\* either wrote the later SET undoes the earlier call's change
C27_StaleWrite ==
  [][\A p \in pending :
       (SetStep(p) /\ p.id \in DOMAIN nodes) =>
         /\ nodes'[p.id].properties.content = Written(p, "content")
         /\ nodes'[p.id].properties.status = Written(p, "status")
         /\ nodes'[p.id].properties.metadata
              = JSONStringify(p.memory[1]["metadata"][1])
         /\ nodes'[p.id].properties.updated = p.t]_vars

\* two calls on one record, one changing content and one changing status,
\* both returned their merged record and the store holds one change only
C27_Witness ==
  \E p \in pending, q \in pending :
    /\ p.id = q.id
    /\ p.updates = [content |-> B]
    /\ q.updates = [status |-> "done"]
    /\ p.phase = "returned" /\ p.result # Null
    /\ q.phase = "returned" /\ q.result # Null
    /\ p.memory = q.memory
    /\ p.id \in DOMAIN nodes
    /\ nodes[p.id].properties.content = A
    /\ nodes[p.id].properties.status = "done"

\* C28: whenever updateMemory returns a record, a node with that id is in
\* the store right after the call's SET and carries the returned content and
\* updated timestamp, whatever ran between the call's fetch and its SET
C28_ReturnedIsStored ==
  [][\A p \in pending :
       SetStep(p) =>
         \A q \in pending' :
           (q.caller = p.caller /\ q.result # Null) =>
             /\ p.id \in DOMAIN nodes'
             /\ Some(nodes'[p.id].properties.content) = q.result[1]["content"]
             /\ Some(nodes'[p.id].properties.updated)
                  = q.result[1]["updated"]]_vars

\* the steps the bootstrap completed include step
Done(step) == \E i \in DOMAIN boot.done : boot.done[i] = step

\* C30: the tools are registered and the transport is connected only after
\* the Redis connect, the ping and MemoryService.initialize() completed, in
\* that order; a bootstrap in which one of these steps failed has exited
\* with code 1, registered no tool, connected no transport and served no
\* tool call
C30_BootOrder ==
  /\ (Done("register") \/ Done("transport") \/ boot.pc = "serving") =>
       SubSeq(boot.done, 1, 3) = <<"connect", "ping", "initialize">>
  /\ Done("transport") =>
       boot.done = <<"connect", "ping", "initialize", "register", "transport">>
  /\ lastOp # "none" => boot.pc = "serving"
  /\ boot.failed # Undefined =>
       /\ boot.pc = "exited"
       /\ boot.exitCode = Some(1)
       /\ lastOp = "none"
       /\ nodes = <<>>
       /\ boot.failed[1] \in {"connect", "ping", "initialize"} =>
            ~Done("register") /\ ~Done("transport")

\* initialize() failed over the indices of an earlier run, after the
\* connect and the ping: the process exited with code 1
C30_Witness ==
  /\ boot.pc = "exited"
  /\ boot.failed = Some("initialize")
  /\ boot.done = <<"connect", "ping">>
  /\ boot.exitCode = Some(1)
  /\ lastOp = "none"

====
